---- MODULE Spec2Model ----
(***************************************************************************)
(* herfish: for a batch of paths read from standard input, find the       *)
(* nearest ancestor directory holding the sentinel entry, optionally      *)
(* count commits and read the working-tree status, filter by the commit   *)
(* cap and print the surviving records.                                    *)
(*                                                                         *)
(* The model follows the latest version of the program, src/herfish.go    *)
(* lines 198-466.  A path string is a sequence of one-character strings,  *)
(* so that filepath.Clean / Dir / Join / Abs and sort.Strings are         *)
(* computed on characters as the library computes them.                   *)
(***************************************************************************)
EXTENDS Integers, Sequences, FiniteSets, Bags, TLC

(***************************************************************************)
(* Bounds of the model.                                                    *)
(***************************************************************************)
MaxPaths == 2
MaxCount == 1
MaxCap == 1
MaxProbes == 3

(***************************************************************************)
(* Program constants.                                                      *)
(***************************************************************************)
NoCap == -1
Sentinel == <<".", "g", "i", "t">>
ErrNil == "nil"
ErrNoGitLog == "ErrNoGitLog"

(***************************************************************************)
(* Strings: byte order of the characters used, and the string order of    *)
(* sort.Strings.                                                           *)
(***************************************************************************)
Code(c) ==
  CASE c = "." -> 46
    [] c = "/" -> 47
    [] c = "a" -> 97
    [] c = "b" -> 98
    [] c = "f" -> 102
    [] c = "g" -> 103
    [] c = "i" -> 105
    [] c = "t" -> 116
    [] c = "x" -> 120

RECURSIVE LessFrom(_, _, _)
LessFrom(s, t, i) ==
  IF i > Len(t) THEN FALSE
  ELSE IF i > Len(s) THEN TRUE
  ELSE IF s[i] = t[i] THEN LessFrom(s, t, i + 1)
  ELSE Code(s[i]) < Code(t[i])

Less(s, t) == LessFrom(s, t, 1)

RECURSIVE Insert(_, _)
Insert(sorted, s) ==
  IF sorted = <<>> THEN <<s>>
  ELSE IF Less(s, Head(sorted)) THEN <<s>> \o sorted
  ELSE <<Head(sorted)>> \o Insert(Tail(sorted), s)

RECURSIVE SortStrings(_)
SortStrings(ps) ==
  IF ps = <<>> THEN <<>>
  ELSE Insert(SortStrings(Tail(ps)), Head(ps))

(***************************************************************************)
(* path/filepath on Unix.                                                  *)
(***************************************************************************)
RECURSIVE SplitAcc(_, _, _)
SplitAcc(s, i, acc) ==
  IF i > Len(s) THEN acc
  ELSE IF s[i] = "/" THEN SplitAcc(s, i + 1, Append(acc, <<>>))
  ELSE SplitAcc(s, i + 1, [acc EXCEPT ![Len(acc)] = Append(@, s[i])])

Split(s) == SplitAcc(s, 1, << <<>> >>)

RECURSIVE CleanAcc(_, _, _, _)
CleanAcc(comps, i, rooted, out) ==
  IF i > Len(comps) THEN out
  ELSE LET c == comps[i] IN
    IF c = <<>> \/ c = <<".">> THEN CleanAcc(comps, i + 1, rooted, out)
    ELSE IF c = <<".", ".">> THEN
      IF Len(out) > 0 /\ out[Len(out)] # <<".", ".">>
        THEN CleanAcc(comps, i + 1, rooted, SubSeq(out, 1, Len(out) - 1))
      ELSE IF rooted THEN CleanAcc(comps, i + 1, rooted, out)
      ELSE CleanAcc(comps, i + 1, rooted, Append(out, c))
    ELSE CleanAcc(comps, i + 1, rooted, Append(out, c))

RECURSIVE JoinComps(_)
JoinComps(comps) ==
  IF comps = <<>> THEN <<>>
  ELSE IF Len(comps) = 1 THEN comps[1]
  ELSE comps[1] \o <<"/">> \o JoinComps(Tail(comps))

IsAbs(s) == Len(s) > 0 /\ s[1] = "/"

Clean(s) ==
  IF s = <<>> THEN <<".">>
  ELSE LET body == JoinComps(CleanAcc(Split(s), 1, IsAbs(s), <<>>)) IN
    IF IsAbs(s) THEN <<"/">> \o body
    ELSE IF body = <<>> THEN <<".">>
    ELSE body

RECURSIVE LastSlash(_, _)
LastSlash(s, i) ==
  IF i = 0 THEN 0
  ELSE IF s[i] = "/" THEN i
  ELSE LastSlash(s, i - 1)

Dir(s) == Clean(SubSeq(s, 1, LastSlash(s, Len(s))))

Join(a, b) ==
  IF a = <<>> /\ b = <<>> THEN <<>>
  ELSE IF a = <<>> THEN Clean(b)
  ELSE IF b = <<>> THEN Clean(a)
  ELSE Clean(a \o <<"/">> \o b)

(***************************************************************************)
(* The filesystem the run sees.  It does not change during a run.  The    *)
(* working directory is /a.                                                *)
(***************************************************************************)
Root == <<"/">>
Cwd == <<"/", "a">>
Dirs == { Root, <<"/", "a">>, <<"/", "a", "/", "b">> }
Files == { <<"/", "a", "/", "f">>, <<"/", "a", "/", "b", "/", "f">> }

\* filepath.Abs: a relative path is joined to the working directory.
Abs(s) == IF IsAbs(s) THEN Clean(s) ELSE Join(Cwd, s)

\* The path strings a line of standard input may hold.
PathUniverse ==
  { <<"/", "a">>,
    <<"/", "a", "/", "b">>,
    <<"/", "a", "/", "f">>,
    <<"/", "a", "/", "b", "/", "f">>,
    <<"/", "x">>,
    <<".">>,
    <<"b">>,
    <<"b", "/">>,
    <<"b", "/", "f">> }

\* Whether Abs needs the working directory (os.Getwd), which may fail.
NeedsGetwd(s) == ~IsAbs(s)

(***************************************************************************)
(* The repository metadata provider (go-git), as what it answers for one  *)
(* directory: whether PlainOpen, Log, the commit iteration and the        *)
(* worktree status succeed, the number of commits, and the worktree       *)
(* status codes of the files that differ.                                  *)
(***************************************************************************)
StatusCodes == {"Untracked", "Modified"}

ProviderReplies ==
  { [kind |-> k, n |-> 0, wtOK |-> TRUE, files |-> {}] :
      k \in {"notRepo", "noLog", "iterErr"} }
  \cup
  { [kind |-> "repo", n |-> n, wtOK |-> FALSE, files |-> {}] : n \in 0..MaxCount }
  \cup
  { [kind |-> "repo", n |-> n, wtOK |-> TRUE, files |-> fs] :
      n \in 0..MaxCount, fs \in SUBSET StatusCodes }

\* What the run observes of an answer: which call failed, if any.
Verdict(r) == [kind |-> r.kind, wtOK |-> r.wtOK]

VARIABLES
  pc,             \* where the run stands
  markers,        \* the directories that hold the sentinel entry
  cap,            \* opts.CommitCountMax
  paths,          \* run: the lines read from standard input
  iter,           \* findSentinelDirs: index of the path of the outer loop
  currentDir,     \* findSentinelDirs: the directory of the inner loop
  uniqueDirs,     \* findSentinelDirs: the recorded directories
  result,         \* findSentinelDirs: the directories in discovery order
  probes,         \* history: the bag of sentinel stats, each [walk, dir]
  sentinelDirs,   \* run: what findSentinelDirs returned
  idx,            \* run: index of the directory of the aggregation loop
  provLog,        \* history: the verdict of the provider, per directory asked
  dataCollection, \* run: the collected records
  filteredData,   \* run: the records applyFilters kept
  stdout,         \* the lines printed
  runErr,         \* what run returned
  exitCode        \* what Execute returned (-1 while running)

vars == << pc, markers, cap, paths, iter, currentDir, uniqueDirs, result, probes,
           sentinelDirs, idx, provLog, dataCollection, filteredData, stdout,
           runErr, exitCode >>

(***************************************************************************)
(* os.Stat.                                                                *)
(***************************************************************************)
MarkerEntries(ms) == { Join(d, Sentinel) : d \in ms }
Entries(ms) == Dirs \cup Files \cup MarkerEntries(ms)

StatOK(p, ms) ==
  /\ p # <<>>
  /\ Abs(p) \in Entries(ms)
  /\ (p[Len(p)] = "/" => Abs(p) \in Dirs)

IsDir(p) == Abs(p) \in Dirs

Batches == UNION { [1..n -> PathUniverse] : n \in 1..MaxPaths }

Init ==
  /\ pc = "start"
  /\ markers \in SUBSET Dirs
  /\ cap \in NoCap..MaxCap
  /\ paths \in Batches
  /\ iter = 0
  /\ currentDir = <<>>
  /\ uniqueDirs = {}
  /\ result = <<>>
  /\ probes = EmptyBag
  /\ sentinelDirs = <<>>
  /\ idx = 0
  /\ provLog = <<>>
  /\ dataCollection = <<>>
  /\ filteredData = <<>>
  /\ stdout = <<>>
  /\ runErr = ErrNil
  /\ exitCode = -1

findVars == << iter, currentDir, uniqueDirs, result, probes >>
aggVars == << idx, provLog, dataCollection, filteredData, stdout >>

\* run, lines 262-281: the lines are sorted and findSentinelDirs is entered.
SortPaths ==
  /\ pc = "start"
  /\ paths' = SortStrings(paths)
  /\ iter' = 1
  /\ pc' = "find"
  /\ UNCHANGED << markers, cap, currentDir, uniqueDirs, result, probes,
                  sentinelDirs, runErr, exitCode >>
  /\ UNCHANGED aggVars

(***************************************************************************)
(* findSentinelDirs, lines 405-439.                                        *)
(***************************************************************************)
\* Line 415 and lines 420-422: where the walk of path p, the k-th of the
\* batch (from 0), starts.
StartDir(p, k) == IF IsDir(p) /\ k # 0 THEN Dir(p) ELSE Abs(p)

\* Mutant: the recorded directories are not consulted.
LoopCond_NoSeen(d, seen) == d # Root

\* Line 426: the condition of the inner loop.
LoopCond(d, seen) == d # Root /\ d \notin seen

\* Mutant: the error of the stat is read the wrong way round.
SentinelFound_ErrAsFound(d, ms) == ~StatOK(Join(d, Sentinel), ms)

\* Lines 427-428: whether the stat of the sentinel entry of d succeeds.
SentinelFound(d, ms) == StatOK(Join(d, Sentinel), ms)

\* The stat of line 428 made by the walk of the k-th path on directory d.
Probe(k, d) == [walk |-> k, dir |-> d]

\* What findSentinelDirs hands back to run, lines 281-284.
runFrame == << markers, cap, paths, idx, provLog, dataCollection, filteredData,
               stdout, exitCode >>

\* Lines 410-413: the stat of the path fails; nothing is returned but the error.
FindStatFail ==
  /\ pc = "find"
  /\ iter <= Len(paths)
  /\ ~StatOK(paths[iter], markers)
  /\ sentinelDirs' = <<>>
  /\ runErr' = "stat"
  /\ pc' = "return"
  /\ UNCHANGED findVars
  /\ UNCHANGED runFrame

\* Lines 415-418: the working directory cannot be read for a relative path.
FindAbsFail ==
  /\ pc = "find"
  /\ iter <= Len(paths)
  /\ StatOK(paths[iter], markers)
  /\ NeedsGetwd(paths[iter])
  /\ sentinelDirs' = <<>>
  /\ runErr' = "abs"
  /\ pc' = "return"
  /\ UNCHANGED findVars
  /\ UNCHANGED runFrame

\* Lines 409-424: the walk of the next path starts.
FindStart ==
  /\ pc = "find"
  /\ iter <= Len(paths)
  /\ StatOK(paths[iter], markers)
  /\ currentDir' = StartDir(paths[iter], iter - 1)
  /\ pc' = "walk"
  /\ UNCHANGED << iter, uniqueDirs, result, probes, sentinelDirs, runErr >>
  /\ UNCHANGED runFrame

\* Line 426, the condition fails: the walk ends without a new directory.
WalkExit ==
  /\ pc = "walk"
  /\ ~LoopCond(currentDir, uniqueDirs)
  /\ iter' = iter + 1
  /\ pc' = "find"
  /\ UNCHANGED << currentDir, uniqueDirs, result, probes, sentinelDirs, runErr >>
  /\ UNCHANGED runFrame

\* Lines 427-432: the sentinel is found; the directory is recorded.
WalkFound ==
  /\ pc = "walk"
  /\ LoopCond(currentDir, uniqueDirs)
  /\ CopiesIn(Probe(iter, currentDir), probes) < MaxProbes
  /\ SentinelFound(currentDir, markers)
  /\ probes' = probes (+) SetToBag({Probe(iter, currentDir)})
  /\ result' = Append(result, currentDir)
  /\ uniqueDirs' = uniqueDirs \cup {currentDir}
  /\ iter' = iter + 1
  /\ pc' = "find"
  /\ UNCHANGED << currentDir, sentinelDirs, runErr >>
  /\ UNCHANGED runFrame

\* Lines 427-434: the sentinel is not found; the walk steps to the parent.
WalkUp ==
  /\ pc = "walk"
  /\ LoopCond(currentDir, uniqueDirs)
  /\ CopiesIn(Probe(iter, currentDir), probes) < MaxProbes
  /\ ~SentinelFound(currentDir, markers)
  /\ probes' = probes (+) SetToBag({Probe(iter, currentDir)})
  /\ currentDir' = Dir(currentDir)
  /\ UNCHANGED << pc, iter, uniqueDirs, result, sentinelDirs, runErr >>
  /\ UNCHANGED runFrame

\* Line 438 and lines 281-288: every path is done; run gets the directories.
FindReturn ==
  /\ pc = "find"
  /\ iter > Len(paths)
  /\ sentinelDirs' = result
  /\ idx' = 1
  /\ pc' = "aggregate"
  /\ UNCHANGED findVars
  /\ UNCHANGED << markers, cap, paths, provLog, dataCollection, filteredData,
                  stdout, runErr, exitCode >>

(***************************************************************************)
(* The provider calls: countCommits (lines 441-466), isRepoClean (lines   *)
(* 343-370) and getRepoStatus (lines 325-341), on the provider's answer r *)
(* for the directory.                                                      *)
(***************************************************************************)
\* Mutant: a failed PlainOpen is reported as ErrNoGitLog.
CountCommits_SkipNotRepo(r) ==
  IF r.kind = "notRepo" THEN [count |-> 0, err |-> ErrNoGitLog]
  ELSE IF r.kind = "noLog" THEN [count |-> 0, err |-> ErrNoGitLog]
  ELSE IF r.kind = "iterErr" THEN [count |-> 0, err |-> "iterate"]
  ELSE [count |-> r.n, err |-> ErrNil]

CountCommits(r) ==
  IF r.kind = "notRepo" THEN [count |-> 0, err |-> "open"]
  ELSE IF r.kind = "noLog" THEN [count |-> 0, err |-> ErrNoGitLog]
  ELSE IF r.kind = "iterErr" THEN [count |-> 0, err |-> "iterate"]
  ELSE [count |-> r.n, err |-> ErrNil]

IsRepoClean(r) ==
  IF ~r.wtOK THEN [clean |-> FALSE, err |-> "worktree"]
  ELSE [clean |-> { f \in r.files : f # "Untracked" } = {}, err |-> ErrNil]

GetRepoStatus(r) ==
  LET c == IsRepoClean(r) IN
  IF c.err # ErrNil THEN [status |-> "", err |-> "cleanliness"]
  ELSE IF c.clean THEN [status |-> "clean", err |-> ErrNil]
  ELSE [status |-> "dirty", err |-> ErrNil]

(***************************************************************************)
(* run, lines 290-323.                                                     *)
(***************************************************************************)
\* Lines 291-295: the record of a directory before the provider is asked.
NewData(dir, c) ==
  [Dir |-> dir, CountCommits |-> c # NoCap, CommitCount |-> 0, RepoStatus |-> "unknown"]

\* Mutant: an error of getRepoStatus leaves the status unknown and run goes on.
Collect_IgnoreStatusErr(dir, c, r) ==
  LET data == [Dir |-> dir, CountCommits |-> c # NoCap, CommitCount |-> 0,
               RepoStatus |-> "unknown"]
      cc == CountCommits(r)
      st == GetRepoStatus(r)
  IN IF cc.err = ErrNoGitLog THEN [err |-> ErrNil, data |-> data]
     ELSE IF cc.err # ErrNil THEN [err |-> "count", data |-> data]
     ELSE IF st.err # ErrNil
       THEN [err |-> ErrNil, data |-> [data EXCEPT !.CommitCount = cc.count]]
     ELSE [err |-> ErrNil,
           data |-> [data EXCEPT !.CommitCount = cc.count, !.RepoStatus = st.status]]

\* Lines 297-313: the body of the aggregation loop for directory dir when the
\* cap is set and the provider answers r: the error run returns, or the record.
Collect(dir, c, r) ==
  LET data == NewData(dir, c)
      cc == CountCommits(r)
      st == GetRepoStatus(r)
  IN IF cc.err = ErrNoGitLog THEN [err |-> ErrNil, data |-> data]
     ELSE IF cc.err # ErrNil THEN [err |-> "count", data |-> data]
     ELSE IF st.err # ErrNil THEN [err |-> "status", data |-> data]
     ELSE [err |-> ErrNil,
           data |-> [data EXCEPT !.CommitCount = cc.count, !.RepoStatus = st.status]]

\* applyFilters, lines 372-384.
RECURSIVE ApplyFiltersFrom(_, _, _, _)
ApplyFiltersFrom(dc, commitCountMax, i, filtered) ==
  IF i > Len(dc) THEN filtered
  ELSE IF commitCountMax = NoCap
    THEN ApplyFiltersFrom(dc, commitCountMax, i + 1, Append(filtered, dc[i]))
  ELSE IF dc[i].CommitCount <= commitCountMax
    THEN ApplyFiltersFrom(dc, commitCountMax, i + 1, Append(filtered, dc[i]))
  ELSE ApplyFiltersFrom(dc, commitCountMax, i + 1, filtered)

\* Mutant: the comparison with the cap is strict.
RECURSIVE StrictFiltersFrom(_, _, _, _)
StrictFiltersFrom(dc, commitCountMax, i, filtered) ==
  IF i > Len(dc) THEN filtered
  ELSE IF commitCountMax = NoCap
    THEN StrictFiltersFrom(dc, commitCountMax, i + 1, Append(filtered, dc[i]))
  ELSE IF dc[i].CommitCount < commitCountMax
    THEN StrictFiltersFrom(dc, commitCountMax, i + 1, Append(filtered, dc[i]))
  ELSE StrictFiltersFrom(dc, commitCountMax, i + 1, filtered)

applyFilters_Strict(dc, commitCountMax) == StrictFiltersFrom(dc, commitCountMax, 1, <<>>)

applyFilters(dc, commitCountMax) == ApplyFiltersFrom(dc, commitCountMax, 1, <<>>)

\* The output template, lines 224-225: the line of one record.
Render(data) ==
  [meta |-> IF data.CountCommits THEN <<data.CommitCount, data.RepoStatus>> ELSE <<>>,
   dir |-> data.Dir]

\* outputResults, lines 386-403: the buffer that is printed.
RECURSIVE ResultBuffer(_)
ResultBuffer(fd) ==
  IF fd = <<>> THEN <<>>
  ELSE <<Render(Head(fd))>> \o ResultBuffer(Tail(fd))

\* Execute, lines 249-254.
ExitCodeOf(err) == IF err # ErrNil THEN 1 ELSE 0

\* Lines 290-316, the cap is not set: the record is collected as it is.
AggregatePlain ==
  /\ pc = "aggregate"
  /\ idx <= Len(sentinelDirs)
  /\ cap = NoCap
  /\ dataCollection' = Append(dataCollection, NewData(sentinelDirs[idx], cap))
  /\ idx' = idx + 1
  /\ UNCHANGED << pc, markers, cap, paths, sentinelDirs, provLog, filteredData,
                  stdout, runErr, exitCode >>
  /\ UNCHANGED findVars

\* Lines 290-316, the cap is set and the provider's answer lets the run go on.
AggregateCollect ==
  /\ pc = "aggregate"
  /\ idx <= Len(sentinelDirs)
  /\ cap # NoCap
  /\ \E r \in ProviderReplies :
       LET o == Collect(sentinelDirs[idx], cap, r) IN
       /\ o.err = ErrNil
       /\ provLog' = Append(provLog, Verdict(r))
       /\ dataCollection' = Append(dataCollection, o.data)
  /\ idx' = idx + 1
  /\ UNCHANGED << pc, markers, cap, paths, sentinelDirs, filteredData,
                  stdout, runErr, exitCode >>
  /\ UNCHANGED findVars

\* Lines 302-303 and 308-310: the provider's answer makes run return an error.
AggregateAbort ==
  /\ pc = "aggregate"
  /\ idx <= Len(sentinelDirs)
  /\ cap # NoCap
  /\ \E r \in ProviderReplies :
       LET o == Collect(sentinelDirs[idx], cap, r) IN
       /\ o.err # ErrNil
       /\ provLog' = Append(provLog, Verdict(r))
       /\ runErr' = o.err
  /\ pc' = "return"
  /\ UNCHANGED << markers, cap, paths, sentinelDirs, idx, dataCollection,
                  filteredData, stdout, exitCode >>
  /\ UNCHANGED findVars

\* Line 318.
ApplyFilters ==
  /\ pc = "aggregate"
  /\ idx > Len(sentinelDirs)
  /\ filteredData' = applyFilters(dataCollection, cap)
  /\ pc' = "output"
  /\ UNCHANGED << markers, cap, paths, sentinelDirs, idx, provLog, dataCollection,
                  stdout, runErr, exitCode >>
  /\ UNCHANGED findVars

\* Lines 320-322.
OutputResults ==
  /\ pc = "output"
  /\ stdout' = ResultBuffer(filteredData)
  /\ pc' = "return"
  /\ UNCHANGED << markers, cap, paths, sentinelDirs, idx, provLog, dataCollection,
                  filteredData, runErr, exitCode >>
  /\ UNCHANGED findVars

\* Lines 249-254: run has returned.
Execute ==
  /\ pc = "return"
  /\ exitCode' = ExitCodeOf(runErr)
  /\ pc' = "exit"
  /\ UNCHANGED << markers, cap, paths, sentinelDirs, idx, provLog, dataCollection,
                  filteredData, stdout, runErr >>
  /\ UNCHANGED findVars

Next ==
  \/ SortPaths
  \/ FindStatFail
  \/ FindAbsFail
  \/ FindStart
  \/ WalkExit
  \/ WalkFound
  \/ WalkUp
  \/ FindReturn
  \/ AggregatePlain
  \/ AggregateCollect
  \/ AggregateAbort
  \/ ApplyFilters
  \/ OutputResults
  \/ Execute

Spec == Init /\ [][Next]_vars

(***************************************************************************)
(* Vocabulary of the properties.                                           *)
(***************************************************************************)
FindErrs == {"stat", "abs"}

\* findSentinelDirs has returned its directories without an error.
FindReturned == pc \in {"aggregate", "output", "return", "exit"} /\ runErr \notin FindErrs

\* findSentinelDirs returns its directories without an error: the state run
\* receives them in.  run changes none of paths, markers and sentinelDirs later.
FindReturns == pc = "aggregate" /\ idx = 1 /\ dataCollection = <<>>

\* run has filtered the collected records.
Filtered == pc = "output" \/ (pc \in {"return", "exit"} /\ runErr = ErrNil)

\* Absolute clean path a is d or a directory above d.
AncestorOrSelf(a, d) ==
  \/ a = d
  \/ a = Root
  \/ /\ Len(a) < Len(d)
     /\ SubSeq(d, 1, Len(a)) = a
     /\ d[Len(a) + 1] = "/"

MarkedAbove(d) == { m \in markers : AncestorOrSelf(m, d) }

\* The nearest marked ancestor-or-self of d, when there is one.
Nearest(d) ==
  CHOOSE m \in MarkedAbove(d) : \A o \in MarkedAbove(d) : Len(o) <= Len(m)

\* The starting directory the specification gives the k-th path (from 0).
ClaimStart(p, k) == IF IsDir(p) /\ k = 0 THEN Abs(p) ELSE Dir(Abs(p))

Returned == { Abs(sentinelDirs[i]) : i \in DOMAIN sentinelDirs }

\* The provider's answers that are fatal for the run.
FatalReply(r) == r.kind \in {"notRepo", "iterErr"} \/ (r.kind = "repo" /\ ~r.wtOK)

HasRecord(dc, dir) == \E i \in DOMAIN dc : dc[i].Dir = dir

(***************************************************************************)
(* C1 (as claimed): no directory of the filesystem is present twice in    *)
(* what findSentinelDirs returns, whatever path string it was reached by. *)
(***************************************************************************)
C1_Dedup ==
  FindReturned =>
    \A i, j \in DOMAIN sentinelDirs :
      i # j => Abs(sentinelDirs[i]) # Abs(sentinelDirs[j])

(***************************************************************************)
(* C2 (as claimed): the upward walk never steps from a directory to a     *)
(* parent that is the same directory again.                                *)
(***************************************************************************)
C2_Termination ==
  (pc = "walk" /\ LoopCond(currentDir, uniqueDirs) /\ ~SentinelFound(currentDir, markers))
    => Dir(currentDir) # currentDir

C4_NoLogNoRecord ==
  \A i \in DOMAIN provLog :
    provLog[i].kind = "noLog" =>
      /\ ~HasRecord(dataCollection, sentinelDirs[i])
      /\ ~HasRecord(filteredData, sentinelDirs[i])
      /\ \A k \in DOMAIN stdout : stdout[k].dir # sentinelDirs[i]

(***************************************************************************)
(* C5: once applyFilters has run, with a cap C >= 0 every kept record     *)
(* that carries metadata has CommitCount <= C and the kept records are    *)
(* exactly the collected records with CommitCount <= C in their order;    *)
(* with the cap -1 the kept records are the collected records.            *)
(***************************************************************************)
UnderCap(d) == d.CommitCount <= cap

C5_RevisionFilter ==
  Filtered =>
    /\ cap >= 0 =>
         /\ \A i \in DOMAIN filteredData :
              filteredData[i].CountCommits => filteredData[i].CommitCount <= cap
         /\ filteredData = SelectSeq(dataCollection, UnderCap)
    /\ cap = NoCap => filteredData = dataCollection

\* The filter dropped a record and kept another.
C5_Witness ==
  /\ pc = "output"
  /\ cap >= 0
  /\ filteredData # <<>>
  /\ Len(filteredData) < Len(dataCollection)

(***************************************************************************)
(* C6 (as claimed): the directories run prints are in alphabetical order. *)
(***************************************************************************)
C6_SortedOutput ==
  (pc = "exit" /\ runErr = ErrNil) =>
    \A i \in 1..(Len(stdout) - 1) : ~Less(stdout[i + 1].dir, stdout[i].dir)

C8_ProbeOnce ==
  \A p, q \in BagToSet(probes) : p.walk < q.walk => p.dir # q.dir

(***************************************************************************)
(* C8 (amended): a path string recorded as a resolved directory is probed *)
(* exactly once in the call: no later walk probes it again.                *)
(***************************************************************************)
C8_RecordedProbedOnce ==
  \A d \in uniqueDirs :
    /\ Cardinality({ p \in BagToSet(probes) : p.dir = d }) = 1
    /\ \A p \in BagToSet(probes) : p.dir = d => CopiesIn(p, probes) = 1

\* A later walk stands on a directory an earlier walk recorded.
C8_Witness ==
  /\ pc = "walk"
  /\ currentDir \in uniqueDirs
  /\ \E p \in BagToSet(probes) : p.dir = currentDir /\ p.walk < iter

(***************************************************************************)
(* C9 (as claimed): the directories findSentinelDirs returns are the      *)
(* nearest marked ancestors-or-self of the paths' starting directories,   *)
(* the root included, and each of them holds the sentinel.                 *)
(***************************************************************************)
C9_NearestAncestor ==
  FindReturned =>
    /\ Returned =
         { Nearest(ClaimStart(paths[k], k - 1)) :
             k \in { j \in DOMAIN paths : MarkedAbove(ClaimStart(paths[j], j - 1)) # {} } }
    /\ Returned \subseteq markers

(***************************************************************************)
(* C10: a fatal answer of the provider makes run return an error, prints  *)
(* nothing and makes Execute return 1; a run that returns no error prints *)
(* one line per kept record, in order, and Execute returns 0.             *)
(***************************************************************************)
C10_AllOrNothing ==
  /\ (\E i \in DOMAIN provLog : FatalReply(provLog[i])) =>
       /\ runErr # ErrNil
       /\ stdout = <<>>
       /\ pc \in {"return", "exit"}
       /\ (pc = "exit" => exitCode = 1)
  /\ runErr # ErrNil => stdout = <<>>
  /\ (pc = "exit" /\ runErr = ErrNil) =>
       /\ exitCode = 0
       /\ Len(stdout) = Len(filteredData)
       /\ \A i \in DOMAIN stdout :
            /\ stdout[i].dir = filteredData[i].Dir
            /\ stdout[i].meta =
                 IF cap = NoCap THEN <<>>
                 ELSE <<filteredData[i].CommitCount, filteredData[i].RepoStatus>>

\* A fatal answer came after a directory had been collected.
C10_Witness ==
  /\ pc = "exit"
  /\ exitCode = 1
  /\ provLog # <<>>
  /\ FatalReply(provLog[Len(provLog)])
  /\ dataCollection # <<>>
  /\ stdout = <<>>
====
